---- MODULE Spec2Model ----
(***************************************************************************)
(* Stock ledger of the Django inventory application.                       *)
(*                                                                         *)
(* The database holds Product rows, StockMovement rows (the ledger) and    *)
(* LowStockAlert rows.  A StockMovement is saved by three entry points:    *)
(* the view stock_movement_create (form validation, then one               *)
(* transaction.atomic block holding the save and the alert get_or_create), *)
(* the admin add page (default ModelForm, one transaction, no alert), and  *)
(* the management command create_sample_data (autocommit: every statement  *)
(* commits by itself).  Every handler is split at its database statements, *)
(* so that concurrent requests interleave as they do on a database with    *)
(* READ COMMITTED isolation and row locks taken by UPDATE.                 *)
(***************************************************************************)
EXTENDS Integers, Sequences, FiniteSets, TLC

\* ------------------------------------------------------------------ bounds
MaxStock == 2      \* largest balance an IN movement may reach in the model
MaxQty == 1        \* largest quantity a request carries
MaxOps == 3        \* requests, command runs, sweeps, imports and admin edits in one run
MaxTime == 3       \* last reading of the clock
MaxPrice == 2      \* largest unit price a request carries

Products == {1, 2}

\* The web requests (view or admin add page) of one run.
Requests == {1, 2}

\* quantity validator of StockMovement.quantity
MinQuantity == 1

MOVEMENT_TYPES == {"IN", "OUT", "ADJ"}

\* A Product row.  exists = FALSE stands for "no row with this code".
NoRow ==
  [exists |-> FALSE, current_stock |-> 0, minimum_stock |-> 0,
   maximum_stock |-> 0, is_active |-> FALSE]

NewRow(stock, minimum, maximum) ==
  [exists |-> TRUE, current_stock |-> stock, minimum_stock |-> minimum,
   maximum_stock |-> maximum, is_active |-> TRUE]

\* A LowStockAlert that a transaction has not inserted.
\* resolved_at is {} for NULL and {t} for the time t.
NoAlert ==
  [product |-> 0, current_stock |-> 0, minimum_stock |-> 0, is_resolved |-> FALSE,
   resolved_at |-> {}]

VARIABLES
  product,   \* committed Product rows, by product
  ledger,    \* committed StockMovement rows, in creation order
  alerts,    \* committed LowStockAlert rows, in creation order
  lock,      \* the requests whose open transaction holds the row lock of a product
  req,       \* web requests: position, form data, in-memory objects
  cmd,       \* the create_sample_data command
  sweep,     \* the check_low_stock command
  jobs,      \* command runs, sweeps, CSV imports and admin edits started so far
  now,       \* timezone.now()
  listed     \* the last answer of movement_list: its filters and its rows

vars == <<product, ledger, alerts, lock, req, cmd, sweep, jobs, now, listed>>

\* ------------------------------------------------------- model functions

\* Product.is_low_stock
is_low_stock(row) == row.current_stock <= row.minimum_stock

\* update_stock without its comparison of current_stock with the quantity.
update_stock_unguarded(row, quantity, movement_type) ==
  IF movement_type = "IN"
    THEN [ok |-> TRUE, row |-> [row EXCEPT !.current_stock = @ + quantity]]
  ELSE IF movement_type = "OUT"
    THEN [ok |-> TRUE, row |-> [row EXCEPT !.current_stock = @ - quantity]]
  ELSE [ok |-> TRUE, row |-> row]

\* Product.update_stock on the in-memory row: the new row, or ok = FALSE for
\* the ValueError("Stock insuficiente").  The self.save() that follows is the
\* caller's database step.
update_stock(row, quantity, movement_type) ==
  IF movement_type = "IN"
    THEN [ok |-> TRUE, row |-> [row EXCEPT !.current_stock = @ + quantity]]
  ELSE IF movement_type = "OUT"
    THEN IF row.current_stock >= quantity
           THEN [ok |-> TRUE, row |-> [row EXCEPT !.current_stock = @ - quantity]]
           ELSE [ok |-> FALSE, row |-> row]
  ELSE [ok |-> TRUE, row |-> row]

\* A nullable number is {} for None and {v} for the value v.
Value(x) == CHOOSE v \in x : TRUE

\* Python's truth value of a nullable number: None and 0 are false.
Truthy(x) == x # {} /\ x # {0}

\* StockMovement.save, "if self.unit_price and not self.total_value".
total_value(m) ==
  IF Truthy(m.unit_price) /\ ~Truthy(m.total_value)
    THEN {Value(m.unit_price) * m.quantity}
    ELSE m.total_value

\* StockMovement.save of a new movement m on the in-memory product row:
\* ok = FALSE for the ValueError of a movement_type that is not IN, OUT or
\* ADJ, raised before anything else, or for the one of update_stock;
\* previous_stock and new_stock are overwritten with the values read from
\* the in-memory product before and after the stock change.
SaveNew(m, row) ==
  LET r == IF m.movement_type \notin MOVEMENT_TYPES
             THEN [ok |-> FALSE, row |-> row]
           ELSE IF m.movement_type = "ADJ"
             THEN [ok |-> TRUE, row |-> [row EXCEPT !.current_stock = m.quantity]]
             ELSE update_stock(row, m.quantity, m.movement_type)
  IN  [ok |-> r.ok,
       row |-> r.row,
       movement |-> [m EXCEPT !.total_value = total_value(m),
                              !.previous_stock = row.current_stock,
                              !.new_stock = r.row.current_stock]]

\* The movement object a ModelForm builds: previous_stock is not a form
\* field (unset, -1 here), new_stock has its default 0; unit_price is an
\* optional field, left blank here, and total_value is not a form field.
\* created_at (auto_now_add) is set by the INSERT, 0 here until then.
FormMovement(p, movement_type, quantity) ==
  [product |-> p, movement_type |-> movement_type, quantity |-> quantity,
   unit_price |-> {}, total_value |-> {},
   previous_stock |-> -1, new_stock |-> 0, created_at |-> 0]

\* get_or_create(product = p, is_resolved = False): the rows the get matches.
Unresolved(p) ==
  {i \in 1..Len(alerts) : alerts[i].product = p /\ ~alerts[i].is_resolved}

NewAlert(p, row) ==
  [product |-> p, current_stock |-> row.current_stock,
   minimum_stock |-> row.minimum_stock, is_resolved |-> FALSE,
   resolved_at |-> {}]

\* --------------------------------------------------------------- initial

\* The GET parameters of movement_list with nothing filled in: a nullable
\* field is {} for blank, movement_type is the empty choice.
NoFilters == [product |-> {}, movement_type |-> "", date_from |-> {}, date_to |-> {}]

IdleRequest ==
  [pc |-> "idle", entry |-> "view", movement |-> FormMovement(1, "IN", 1),
   mem |-> NoRow,
   has_alert |-> FALSE, alert |-> NoAlert, outcome |-> "none"]

IdleCommand ==
  [pc |-> "idle", product |-> 1, mem |-> NoRow, left |-> 0,
   movement |-> FormMovement(1, "IN", 1), outcome |-> "none"]

\* mailed: the alerts send_mail was called for, in the order of the calls,
\* with STOCK_ALERT_EMAIL set (without it nothing is sent).
IdleSweep == [pc |-> "idle", todo |-> <<>>, alerts_created |-> 0, mailed |-> <<>>]

InitStocks == 0..MaxStock
InitMinimums == {1}

\* Product 1 is in the catalog; product 2 has not been created yet.
Init ==
  /\ \E stock \in InitStocks, minimum \in InitMinimums :
        product = [p \in Products |->
                     IF p = 1 THEN NewRow(stock, minimum, MaxStock) ELSE NoRow]
  /\ ledger = <<>>
  /\ alerts = <<>>
  /\ lock = [p \in Products |-> {}]
  /\ req = [r \in Requests |-> IdleRequest]
  /\ cmd = IdleCommand
  /\ sweep = IdleSweep
  /\ jobs = 0
  /\ now = 1
  /\ listed = [filters |-> NoFilters, rows |-> <<>>]

\* The operations started so far in this run.
OpsStarted == Cardinality({r \in Requests : req[r].pc # "idle"}) + jobs

\* ------------------------------------------- web requests (view, admin)

\* A request that has been answered keeps only its outcome.
Finished(r, outcome) == [IdleRequest EXCEPT !.pc = "done", !.outcome = outcome]

\* Requests are taken in order: the slots are interchangeable.
CanSubmit(r) ==
  /\ req[r].pc = "idle"
  /\ OpsStarted < MaxOps
  /\ IF r = 1 THEN TRUE ELSE req[r - 1].pc # "idle"

\* A submission whose form does not validate the quantity.
SubmitAnyQuantity(r, entry, p, movement_type, quantity) ==
  /\ CanSubmit(r)
  /\ product[p].exists
  /\ movement_type \in MOVEMENT_TYPES
  /\ movement_type = "IN" => product[p].current_stock + quantity <= MaxStock
  /\ req' = [req EXCEPT ![r] =
       [IdleRequest EXCEPT
          !.pc = IF entry = "view" THEN "loaded" ELSE "cleaned",
          !.entry = entry,
          !.movement = FormMovement(p, movement_type, quantity),
          !.mem = product[p]]]
  /\ UNCHANGED <<product, ledger, alerts, lock, cmd, sweep, jobs, now, listed>>

\* A submission whose form does not validate the movement type.
SubmitAnyKind(r, entry, p, movement_type, quantity) ==
  /\ CanSubmit(r)
  /\ product[p].exists
  /\ quantity >= MinQuantity
  /\ movement_type = "IN" => product[p].current_stock + quantity <= MaxStock
  /\ req' = [req EXCEPT ![r] =
       [IdleRequest EXCEPT
          !.pc = IF entry = "view" THEN "loaded" ELSE "cleaned",
          !.entry = entry,
          !.movement = FormMovement(p, movement_type, quantity),
          !.mem = product[p]]]
  /\ UNCHANGED <<product, ledger, alerts, lock, cmd, sweep, jobs, now, listed>>

\* form.is_valid(), field cleaning: the quantity validator, the choices of
\* movement_type and the product choice field, which loads the Product
\* instance the movement will carry.
\* The admin's form has no clean() of its own, so it is valid here.
Submit(r, entry, p, movement_type, quantity) ==
  /\ CanSubmit(r)
  /\ product[p].exists
  /\ movement_type \in MOVEMENT_TYPES
  /\ quantity >= MinQuantity
  /\ movement_type = "IN" => product[p].current_stock + quantity <= MaxStock
  /\ req' = [req EXCEPT ![r] =
       [IdleRequest EXCEPT
          !.pc = IF entry = "view" THEN "loaded" ELSE "cleaned",
          !.entry = entry,
          !.movement = FormMovement(p, movement_type, quantity),
          !.mem = product[p]]]
  /\ UNCHANGED <<product, ledger, alerts, lock, cmd, sweep, jobs, now, listed>>

\* The same request with the optional unit_price filled in.
SubmitWithPrice(r, entry, p, movement_type, quantity, price) ==
  /\ CanSubmit(r)
  /\ product[p].exists
  /\ movement_type \in MOVEMENT_TYPES
  /\ quantity >= MinQuantity
  /\ movement_type = "IN" => product[p].current_stock + quantity <= MaxStock
  /\ req' = [req EXCEPT ![r] =
       [IdleRequest EXCEPT
          !.pc = IF entry = "view" THEN "loaded" ELSE "cleaned",
          !.entry = entry,
          !.movement = [FormMovement(p, movement_type, quantity)
                          EXCEPT !.unit_price = {price}],
          !.mem = product[p]]]
  /\ UNCHANGED <<product, ledger, alerts, lock, cmd, sweep, jobs, now, listed>>

\* A form that fails field validation: the view renders the form again.
SubmitInvalid(r, entry, p, movement_type, quantity) ==
  /\ CanSubmit(r)
  /\ ~(product[p].exists /\ movement_type \in MOVEMENT_TYPES /\ quantity >= MinQuantity)
  /\ req' = [req EXCEPT ![r] =
       Finished(r, IF ~product[p].exists THEN "ItemNotFound" ELSE "InvalidQuantity")]
  /\ UNCHANGED <<product, ledger, alerts, lock, cmd, sweep, jobs, now, listed>>

\* The same answer with the bound form, which the view renders again with
\* its errors, kept in it.
SubmitRejected(r, entry, p, movement_type, quantity) ==
  /\ CanSubmit(r)
  /\ ~(product[p].exists /\ movement_type \in MOVEMENT_TYPES /\ quantity >= MinQuantity)
  /\ req' = [req EXCEPT ![r] =
       [Finished(r, IF ~product[p].exists THEN "ItemNotFound" ELSE "InvalidQuantity")
          EXCEPT !.entry = entry,
                 !.movement = FormMovement(p, movement_type, quantity)]]
  /\ UNCHANGED <<product, ledger, alerts, lock, cmd, sweep, jobs, now, listed>>

\* StockMovementForm.clean: for an OUT movement, a fresh read of the product
\* row and the comparison with the quantity.
CleanPasses(r) ==
  LET m == req[r].movement
  IN  m.movement_type = "OUT" => product[m.product].current_stock >= m.quantity

Clean(r) ==
  /\ req[r].pc = "loaded"
  /\ req' = [req EXCEPT ![r] =
       IF CleanPasses(r) THEN [req[r] EXCEPT !.pc = "cleaned"]
       ELSE Finished(r, "InsufficientBalance")]
  /\ UNCHANGED <<product, ledger, alerts, lock, cmd, sweep, jobs, now, listed>>

\* movement.save() inside the transaction: StockMovement.save changes the
\* in-memory product, product.save() UPDATEs the row (taking its lock) and
\* super().save() INSERTs the movement.  Nothing is visible before commit.
\* The admin add page has no alert step, so it goes on to the commit.
Apply(r) ==
  LET m == req[r].movement
      s == SaveNew(m, req[r].mem)
  IN  /\ req[r].pc = "cleaned"
      /\ IF ~s.ok
           THEN /\ req' = [req EXCEPT ![r] =
                     Finished(r, IF m.movement_type \in MOVEMENT_TYPES
                                   THEN "InsufficientBalance" ELSE "InvalidQuantity")]
                /\ UNCHANGED lock
           ELSE /\ lock[m.product] = {}
                /\ lock' = [lock EXCEPT ![m.product] = {r}]
                /\ req' = [req EXCEPT ![r] =
                     [req[r] EXCEPT
                        !.pc = IF req[r].entry = "view" THEN "applied" ELSE "evaluated",
                        !.mem = s.row,
                        !.movement = [s.movement EXCEPT !.created_at = now]]]
      /\ UNCHANGED <<product, ledger, alerts, cmd, sweep, jobs, now, listed>>

\* The INSERT of the movement fails (a database error): the atomic block
\* rolls the product UPDATE back and the view reports the error.
ApplyFails(r) ==
  LET m == req[r].movement
  IN  /\ req[r].pc = "cleaned"
      /\ SaveNew(m, req[r].mem).ok
      /\ lock[m.product] = {}
      /\ req' = [req EXCEPT ![r] = Finished(r, "PersistenceFailure")]
      /\ UNCHANGED <<product, ledger, alerts, lock, cmd, sweep, jobs, now, listed>>

\* An alert step that creates without looking for an unresolved alert.
EvaluateNoLookup(r) ==
  LET m == req[r].movement
      low == is_low_stock(req[r].mem)
  IN  /\ req[r].pc = "applied"
      /\ req' = [req EXCEPT ![r] =
           [req[r] EXCEPT
              !.pc = "evaluated",
              !.has_alert = low,
              !.alert = IF low THEN NewAlert(m.product, req[r].mem) ELSE NoAlert]]
      /\ UNCHANGED <<product, ledger, alerts, lock, cmd, sweep, jobs, now, listed>>

\* The view's alert step, still inside the transaction: is_low_stock of the
\* in-memory product, then get_or_create.  The get sees the committed
\* alerts; two matches raise MultipleObjectsReturned, which leaves the
\* atomic block and rolls the movement back.
Evaluate(r) ==
  LET m == req[r].movement
      low == is_low_stock(req[r].mem)
      n == Cardinality(Unresolved(m.product))
  IN  /\ req[r].pc = "applied"
      /\ IF low /\ n >= 2
           THEN /\ req' = [req EXCEPT ![r] = Finished(r, "AlertFailure")]
                /\ lock' = [lock EXCEPT ![m.product] = {}]
           ELSE /\ req' = [req EXCEPT ![r] =
                     [req[r] EXCEPT
                        !.pc = "evaluated",
                        !.has_alert = low /\ n = 0,
                        !.alert = IF low /\ n = 0
                                    THEN NewAlert(m.product, req[r].mem)
                                    ELSE NoAlert]]
                /\ UNCHANGED lock
      /\ UNCHANGED <<product, ledger, alerts, cmd, sweep, jobs, now, listed>>

\* The create of get_or_create fails (a database error): the exception
\* leaves the atomic block, the movement is rolled back and the view reports
\* the error.
EvaluateFails(r) ==
  LET m == req[r].movement
  IN  /\ req[r].pc = "applied"
      /\ is_low_stock(req[r].mem)
      /\ Unresolved(m.product) = {}
      /\ req' = [req EXCEPT ![r] = Finished(r, "AlertFailure")]
      /\ lock' = [lock EXCEPT ![m.product] = {}]
      /\ UNCHANGED <<product, ledger, alerts, cmd, sweep, jobs, now, listed>>

\* A commit that also resolves the alerts of an item that is no longer low.
CommitResolving(r) ==
  LET m == req[r].movement
      kept == IF is_low_stock(req[r].mem)
                THEN alerts
                ELSE [i \in 1..Len(alerts) |->
                        IF alerts[i].product = m.product
                          THEN [alerts[i] EXCEPT !.is_resolved = TRUE, !.resolved_at = {now}]
                          ELSE alerts[i]]
  IN  /\ req[r].pc = "evaluated"
      /\ product' = [product EXCEPT ![m.product] = req[r].mem]
      /\ ledger' = Append(ledger, m)
      /\ alerts' = IF req[r].has_alert THEN Append(kept, req[r].alert) ELSE kept
      /\ lock' = [lock EXCEPT ![m.product] = {}]
      /\ req' = [req EXCEPT ![r] = Finished(r, "ok")]
      /\ UNCHANGED <<cmd, sweep, jobs, now, listed>>

\* A commit that stores the new balance in the row of every product.
CommitEveryRow(r) ==
  LET m == req[r].movement
  IN  /\ req[r].pc = "evaluated"
      /\ product' = [q \in Products |->
                       IF q = m.product THEN req[r].mem
                       ELSE IF product[q].exists
                         THEN [product[q] EXCEPT !.current_stock = req[r].mem.current_stock]
                       ELSE product[q]]
      /\ ledger' = Append(ledger, m)
      /\ alerts' = IF req[r].has_alert THEN Append(alerts, req[r].alert) ELSE alerts
      /\ lock' = [lock EXCEPT ![m.product] = {}]
      /\ req' = [req EXCEPT ![r] = Finished(r, "ok")]
      /\ UNCHANGED <<cmd, sweep, jobs, now, listed>>

\* Leaving the atomic block: the product row, the movement and the alert
\* become visible together and the row lock is released.
Commit(r) ==
  LET m == req[r].movement
  IN  /\ req[r].pc = "evaluated"
      /\ product' = [product EXCEPT ![m.product] = req[r].mem]
      /\ ledger' = Append(ledger, m)
      /\ alerts' = IF req[r].has_alert THEN Append(alerts, req[r].alert) ELSE alerts
      /\ lock' = [lock EXCEPT ![m.product] = {}]
      /\ req' = [req EXCEPT ![r] = Finished(r, "ok")]
      /\ UNCHANGED <<cmd, sweep, jobs, now, listed>>

\* ------------------------------------- create_sample_data (autocommit)

CmdStocks == {0, 1}
CmdMinimums == {1}
\* random.randint(1, 5) movements per product, scaled down.
CmdLoopCounts == {1}

\* Product.objects.create for a code that has no row yet, then the number
\* of movements to attempt for it.
CmdCreateProduct(p, stock, minimum, n) ==
  /\ cmd.pc = "idle"
  /\ OpsStarted < MaxOps
  /\ ~product[p].exists
  /\ product' = [product EXCEPT ![p] = NewRow(stock, minimum, MaxStock)]
  /\ cmd' = [IdleCommand EXCEPT !.pc = "loop", !.product = p,
                                !.mem = NewRow(stock, minimum, MaxStock),
                                !.left = n]
  /\ jobs' = jobs + 1
  /\ UNCHANGED <<ledger, alerts, lock, req, sweep, now, listed>>

\* unit_price = product.unit_price, a price of at least 10, scaled down.
CmdUnitPrice == {1}

\* The movement the command passes to StockMovement.objects.create: it
\* supplies previous_stock and new_stock itself.
CmdMovement(p, row, movement_type, quantity) ==
  [product |-> p, movement_type |-> movement_type, quantity |-> quantity,
   unit_price |-> CmdUnitPrice, total_value |-> {},
   previous_stock |-> row.current_stock,
   new_stock |-> row.current_stock
                 + (IF movement_type = "IN" THEN quantity ELSE 0 - quantity),
   created_at |-> 0]

\* One iteration that skips: an OUT larger than the in-memory stock.
CmdSkip(movement_type, quantity) ==
  /\ cmd.pc = "loop"
  /\ cmd.left > 0
  /\ movement_type = "OUT" /\ cmd.mem.current_stock < quantity
  /\ cmd' = [cmd EXCEPT !.left = @ - 1]
  /\ UNCHANGED <<product, ledger, alerts, lock, req, sweep, jobs, now, listed>>

\* One iteration, first statement: StockMovement.save changes the in-memory
\* product and product.save() UPDATEs the row, which commits at once.
CmdSaveProduct(movement_type, quantity) ==
  LET p == cmd.product
      s == SaveNew(CmdMovement(p, cmd.mem, movement_type, quantity), cmd.mem)
  IN  /\ cmd.pc = "loop"
      /\ cmd.left > 0
      /\ ~(movement_type = "OUT" /\ cmd.mem.current_stock < quantity)
      /\ movement_type = "IN" => cmd.mem.current_stock + quantity <= MaxStock
      /\ s.ok
      /\ lock[p] = {}
      /\ product' = [product EXCEPT ![p] = s.row]
      /\ cmd' = [cmd EXCEPT !.pc = "saving", !.mem = s.row, !.movement = s.movement]
      /\ UNCHANGED <<ledger, alerts, lock, req, sweep, jobs, now, listed>>

\* Second statement: the INSERT of the movement, which commits at once.
CmdInsertMovement ==
  /\ cmd.pc = "saving"
  /\ ledger' = Append(ledger, [cmd.movement EXCEPT !.created_at = now])
  /\ cmd' = [cmd EXCEPT !.pc = "loop", !.left = @ - 1]
  /\ UNCHANGED <<product, alerts, lock, req, sweep, jobs, now, listed>>

\* The INSERT fails (a database error): the exception ends the command; the
\* product UPDATE was committed before it.
CmdInsertFails ==
  /\ cmd.pc = "saving"
  /\ cmd' = [IdleCommand EXCEPT !.pc = "done", !.product = cmd.product,
                                !.outcome = "PersistenceFailure"]
  /\ UNCHANGED <<product, ledger, alerts, lock, req, sweep, jobs, now, listed>>

\* The movements of this product are done; the command goes on to the next
\* code.
CmdNextProduct ==
  /\ cmd.pc = "loop"
  /\ cmd.left = 0
  /\ cmd' = IdleCommand
  /\ UNCHANGED <<product, ledger, alerts, lock, req, sweep, jobs, now, listed>>

\* ------------------------------------------ check_low_stock (autocommit)

RECURSIVE LowStockRows(_)
\* The queryset is_active = True, current_stock <= minimum_stock, read once
\* when the loop starts: the matching rows of products 1..n, by product.
LowStockRows(n) ==
  IF n = 0 THEN <<>>
  ELSE LET rest == LowStockRows(n - 1)
       IN  IF /\ n \in Products
              /\ product[n].exists
              /\ product[n].is_active
              /\ is_low_stock(product[n])
             THEN Append(rest, [product |-> n, row |-> product[n]])
             ELSE rest

SweepQuery ==
  /\ sweep.pc = "idle"
  /\ OpsStarted < MaxOps
  /\ sweep' = [sweep EXCEPT !.pc = "get",
                            !.todo = LowStockRows(Cardinality(Products)),
                            !.alerts_created = 0,
                            !.mailed = <<>>]
  /\ jobs' = jobs + 1
  /\ UNCHANGED <<product, ledger, alerts, lock, req, cmd, now, listed>>

\* A get that sends the mail for the alert it found.
SweepGetMailing ==
  LET p == Head(sweep.todo).product
      n == Cardinality(Unresolved(p))
  IN  /\ sweep.pc = "get"
      /\ sweep.todo # <<>>
      /\ sweep' = IF n = 0 THEN [sweep EXCEPT !.pc = "create"]
                  ELSE IF n = 1
                         THEN [sweep EXCEPT !.todo = Tail(@),
                                            !.mailed = Append(@, CHOOSE i \in Unresolved(p) : TRUE)]
                  ELSE [sweep EXCEPT !.pc = "idle", !.todo = <<>>]
      /\ UNCHANGED <<product, ledger, alerts, lock, req, cmd, jobs, now, listed>>

\* A get that leaves out is_resolved = False and matches any alert of the
\* product.
SweepGetAnyAlert ==
  LET p == Head(sweep.todo).product
      n == Cardinality({i \in 1..Len(alerts) : alerts[i].product = p})
  IN  /\ sweep.pc = "get"
      /\ sweep.todo # <<>>
      /\ sweep' = IF n = 0 THEN [sweep EXCEPT !.pc = "create"]
                  ELSE IF n = 1 THEN [sweep EXCEPT !.todo = Tail(@)]
                  ELSE [sweep EXCEPT !.pc = "idle", !.todo = <<>>]
      /\ UNCHANGED <<product, ledger, alerts, lock, req, cmd, jobs, now, listed>>

\* get_or_create, the get: one match returns it, no match goes on to the
\* create, two matches raise MultipleObjectsReturned and end the command.
\* created is False for the alert found, so nothing is counted or mailed.
SweepGet ==
  LET p == Head(sweep.todo).product
      n == Cardinality(Unresolved(p))
  IN  /\ sweep.pc = "get"
      /\ sweep.todo # <<>>
      /\ sweep' = IF n = 0 THEN [sweep EXCEPT !.pc = "create"]
                  ELSE IF n = 1 THEN [sweep EXCEPT !.todo = Tail(@)]
                  ELSE [sweep EXCEPT !.pc = "idle", !.todo = <<>>]
      /\ UNCHANGED <<product, ledger, alerts, lock, req, cmd, jobs, now, listed>>

\* A create that is not counted.
SweepCreateUncounted ==
  LET h == Head(sweep.todo)
  IN  /\ sweep.pc = "create"
      /\ alerts' = Append(alerts, NewAlert(h.product, h.row))
      /\ sweep' = [sweep EXCEPT !.pc = "get", !.todo = Tail(@),
                                !.mailed = Append(@, Len(alerts) + 1)]
      /\ UNCHANGED <<product, ledger, lock, req, cmd, jobs, now, listed>>

\* get_or_create, the create, with the values of the row the query read;
\* created is True: the alert is counted and send_mail is called for it
\* (fail_silently, so the call never ends the command).
SweepCreate ==
  LET h == Head(sweep.todo)
  IN  /\ sweep.pc = "create"
      /\ alerts' = Append(alerts, NewAlert(h.product, h.row))
      /\ sweep' = [sweep EXCEPT !.pc = "get", !.todo = Tail(@),
                                !.alerts_created = @ + 1,
                                !.mailed = Append(@, Len(alerts) + 1)]
      /\ UNCHANGED <<product, ledger, lock, req, cmd, jobs, now, listed>>

SweepFinish ==
  /\ sweep.pc = "get"
  /\ sweep.todo = <<>>
  /\ sweep' = [sweep EXCEPT !.pc = "idle"]
  /\ UNCHANGED <<product, ledger, alerts, lock, req, cmd, jobs, now, listed>>

\* ------------------------------------------------------- resolve_alert

\* Time passes.
Tick ==
  /\ now < MaxTime
  /\ now' = now + 1
  /\ UNCHANGED <<product, ledger, alerts, lock, req, cmd, sweep, jobs, listed>>

\* The view resolve_alert: get_object_or_404, then both fields are assigned
\* and saved, whatever the alert held.
ResolveAlert(i) ==
  /\ i \in 1..Len(alerts)
  /\ alerts' = [alerts EXCEPT ![i].is_resolved = TRUE, ![i].resolved_at = {now}]
  /\ alerts' # alerts
  /\ UNCHANGED <<product, ledger, lock, req, cmd, sweep, jobs, now, listed>>

\* The admin action mark_as_resolved on the selected alerts: one
\* queryset.update of both fields.
mark_as_resolved(selected) ==
  /\ selected # {}
  /\ alerts' = [i \in 1..Len(alerts) |->
                  IF i \in selected
                    THEN [alerts[i] EXCEPT !.is_resolved = TRUE, !.resolved_at = {now}]
                    ELSE alerts[i]]
  /\ alerts' # alerts
  /\ UNCHANGED <<product, ledger, lock, req, cmd, sweep, jobs, now, listed>>

\* LowStockAlertAdmin add page (ModelAdmin's default add): the form carries
\* the product and the two snapshots; is_resolved is left at its default.
AdminAddAlert(p) ==
  /\ OpsStarted < MaxOps
  /\ product[p].exists
  /\ alerts' = Append(alerts, NewAlert(p, product[p]))
  /\ jobs' = jobs + 1
  /\ UNCHANGED <<product, ledger, lock, req, cmd, sweep, now, listed>>

\* LowStockAlertAdmin change page (ModelAdmin's default change): is_resolved
\* is a checkbox of the form, resolved_at is read-only and keeps its value.
AdminChangeAlert(i, is_resolved) ==
  /\ i \in 1..Len(alerts)
  /\ alerts' = [alerts EXCEPT ![i].is_resolved = is_resolved]
  /\ alerts' # alerts
  /\ UNCHANGED <<product, ledger, lock, req, cmd, sweep, jobs, now, listed>>

\* ---------------------------------------------------------- product_edit

\* The view product_edit with a valid ProductForm: minimum_stock,
\* maximum_stock and is_active are fields of the form, current_stock is not.
\* ProductForm.clean refuses a minimum that is not below the maximum when
\* both are non-zero.
product_edit(p, minimum, maximum, active) ==
  /\ OpsStarted < MaxOps
  /\ product[p].exists
  /\ lock[p] = {}
  /\ ~(minimum # 0 /\ maximum # 0 /\ minimum >= maximum)
  /\ product' = [product EXCEPT ![p].minimum_stock = minimum,
                                ![p].maximum_stock = maximum,
                                ![p].is_active = active]
  /\ product' # product
  /\ jobs' = jobs + 1
  /\ UNCHANGED <<ledger, alerts, lock, req, cmd, sweep, now, listed>>

\* The validators of the fields minimum_stock and maximum_stock, which every
\* ModelForm of Product runs.
FieldsValid(minimum, maximum) == minimum >= 0 /\ maximum >= 1

\* ProductForm.clean: a ValidationError when both numbers are true in
\* Python's sense and the minimum is not below the maximum.
ProductFormClean(minimum, maximum) ==
  ~(minimum # 0 /\ maximum # 0 /\ minimum >= maximum)

\* The form of an edit is valid: ProductForm for the view, ModelAdmin's own
\* ModelForm, which has no clean(), for the admin's change page and list.
EditValid(entry, minimum, maximum) ==
  /\ FieldsValid(minimum, maximum)
  /\ entry = "product_edit" => ProductFormClean(minimum, maximum)

\* The view product_create with a code that has no row yet: current_stock
\* is not a field of ProductForm, so the row gets the default 0.
product_create(p, minimum, maximum) ==
  /\ OpsStarted < MaxOps
  /\ ~product[p].exists
  /\ EditValid("product_edit", minimum, maximum)
  /\ product' = [product EXCEPT ![p] = NewRow(0, minimum, maximum)]
  /\ jobs' = jobs + 1
  /\ UNCHANGED <<ledger, alerts, lock, req, cmd, sweep, now, listed>>

\* An edit of a product, first statement: the request loads the Product
\* instance (get_object_or_404 in the view product_edit, the queryset of the
\* change page or of the change list in the admin).
EditLoad(r, entry, p) ==
  /\ CanSubmit(r)
  /\ product[p].exists
  /\ req' = [req EXCEPT ![r] =
       [IdleRequest EXCEPT !.pc = "editing", !.entry = entry,
                           !.movement.product = p,
                           !.mem = product[p]]]
  /\ UNCHANGED <<product, ledger, alerts, lock, cmd, sweep, jobs, now, listed>>

\* Second statement: form.save() puts the fields of the form into the
\* instance loaded before and UPDATEs every column of the row from it,
\* current_stock included; an invalid form is rendered again.
EditSave(r, minimum, maximum, active) ==
  LET p == req[r].movement.product
  IN  /\ req[r].pc = "editing"
      /\ IF EditValid(req[r].entry, minimum, maximum)
           THEN /\ lock[p] = {}
                /\ product' = [product EXCEPT ![p] =
                     [req[r].mem EXCEPT !.minimum_stock = minimum,
                                        !.maximum_stock = maximum,
                                        !.is_active = active]]
                /\ req' = [req EXCEPT ![r] = Finished(r, "ok")]
           ELSE /\ req' = [req EXCEPT ![r] = Finished(r, "InvalidForm")]
                /\ UNCHANGED product
      /\ UNCHANGED <<ledger, alerts, lock, cmd, sweep, jobs, now, listed>>

\* ----------------------------------------------------------- csv_import

CsvStocks == -1..MaxStock
CsvMinimums == {0, 1}

\* One row of the file: Product.objects.update_or_create(code, defaults).
\* The defaults carry current_stock, so an existing product's balance is
\* overwritten; no validator runs and no StockMovement is created.
CsvImport(p, stock, minimum, maximum) ==
  /\ OpsStarted < MaxOps
  /\ lock[p] = {}
  /\ product' = [product EXCEPT ![p] =
       IF product[p].exists
         THEN [product[p] EXCEPT !.current_stock = stock,
                                 !.minimum_stock = minimum,
                                 !.maximum_stock = maximum]
         ELSE NewRow(stock, minimum, maximum)]
  /\ jobs' = jobs + 1
  /\ UNCHANGED <<ledger, alerts, lock, req, cmd, sweep, now, listed>>

\* ---------------------------------------------------------- movement_list

\* created_at__date: the calendar day of a timestamp, two ticks of the
\* clock to the day.
DateOf(t) == (t + 1) \div 2

\* MovementFilterForm.is_valid: the product must be one of Product.objects
\* .all(), the movement_type blank or one of the choices; the dates are
\* dates.
FilterValid(f) ==
  /\ \A p \in f.product : product[p].exists
  /\ f.movement_type \in MOVEMENT_TYPES \cup {""}

\* The four filters of the view, each applied when its field is filled in.
FilterMatches(f, m) ==
  /\ \A p \in f.product : m.product = p
  /\ f.movement_type # "" => m.movement_type = f.movement_type
  /\ \A d \in f.date_from : DateOf(m.created_at) >= d
  /\ \A d \in f.date_to : DateOf(m.created_at) <= d

RECURSIVE NewestFirst(_)
\* Meta.ordering = ['-created_at'] over the rows with the ids in S; rows of
\* the same instant are given with the later id first (the database leaves
\* their order open).
NewestFirst(S) ==
  IF S = {} THEN <<>>
  ELSE LET first == CHOOSE i \in S : \A j \in S :
                      \/ ledger[j].created_at < ledger[i].created_at
                      \/ (ledger[j].created_at = ledger[i].created_at /\ j <= i)
       IN  <<first>> \o NewestFirst(S \ {first})

\* The view movement_list: all movements, filtered when the form is valid,
\* newest first.  The rows are given by their position in the ledger.  The
\* Paginator cuts pages of 20 rows; the ledgers here fit on the first page.
movement_list(f) ==
  /\ OpsStarted < MaxOps
  /\ listed' = [filters |-> f,
                rows |-> NewestFirst({i \in 1..Len(ledger) :
                                        FilterValid(f) => FilterMatches(f, ledger[i])})]
  /\ jobs' = jobs + 1
  /\ UNCHANGED <<product, ledger, alerts, lock, req, cmd, sweep, now>>

\* ------------------------------------------- admin pages of the ledger

\* StockMovement.save of a movement that has a primary key: the type check
\* and the total_value come first as for a new one; the block under
\* `if is_new:` is skipped, so the product is not touched and previous_stock
\* and new_stock keep the values of the instance; super().save() UPDATEs
\* the row and the last statement writes the same new_stock again.
SaveExisting(m) ==
  [ok |-> m.movement_type \in MOVEMENT_TYPES,
   movement |-> [m EXCEPT !.total_value = total_value(m)]]

\* A change page whose save applies the movement to the product again, as
\* for a new movement.
AdminChangeMovementApplied(i, movement_type, quantity) ==
  LET m == [ledger[i] EXCEPT !.movement_type = movement_type,
                             !.quantity = quantity]
      s == SaveNew(m, product[m.product])
  IN  /\ OpsStarted < MaxOps
      /\ i \in 1..Len(ledger)
      /\ quantity >= MinQuantity
      /\ lock[m.product] = {}
      /\ s.ok
      /\ s.row.current_stock <= MaxStock
      /\ product' = [product EXCEPT ![m.product] = s.row]
      /\ ledger' = [ledger EXCEPT ![i] = s.movement]
      /\ jobs' = jobs + 1
      /\ UNCHANGED <<alerts, lock, req, cmd, sweep, now, listed>>

\* StockMovementAdmin change page: movement_type and quantity are editable
\* (previous_stock, new_stock, total_value and created_at are read-only).
\* The form puts them into the instance it loaded and save_model calls
\* StockMovement.save, which has a primary key here.
AdminChangeMovement(i, movement_type, quantity) ==
  LET s == SaveExisting([ledger[i] EXCEPT !.movement_type = movement_type,
                                          !.quantity = quantity])
  IN  /\ OpsStarted < MaxOps
      /\ i \in 1..Len(ledger)
      /\ quantity >= MinQuantity
      /\ s.ok
      /\ ledger' = [ledger EXCEPT ![i] = s.movement]
      /\ jobs' = jobs + 1
      /\ UNCHANGED <<product, alerts, lock, req, cmd, sweep, now, listed>>

\* StockMovementAdmin delete page (ModelAdmin's default delete).
AdminDeleteMovement(i) ==
  /\ OpsStarted < MaxOps
  /\ i \in 1..Len(ledger)
  /\ ledger' = [j \in 1..(Len(ledger) - 1) |->
                  IF j < i THEN ledger[j] ELSE ledger[j + 1]]
  /\ jobs' = jobs + 1
  /\ UNCHANGED <<product, alerts, lock, req, cmd, sweep, now, listed>>

\* ------------------------------------------------------- specifications

Entries == {"view", "admin"}
Quantities == 0..MaxQty

RequestStep ==
  \E r \in Requests :
    \/ \E e \in Entries, p \in Products, t \in MOVEMENT_TYPES, q \in Quantities :
         \/ Submit(r, e, p, t, q)
         \/ SubmitInvalid(r, e, p, t, q)
    \/ Clean(r)
    \/ Apply(r)
    \/ ApplyFails(r)
    \/ Evaluate(r)
    \/ EvaluateFails(r)
    \/ Commit(r)

CommandStep ==
  \/ \E p \in Products, s \in CmdStocks, m \in CmdMinimums, n \in CmdLoopCounts :
       CmdCreateProduct(p, s, m, n)
  \/ \E t \in {"IN", "OUT"}, q \in 1..MaxQty :
       \/ CmdSkip(t, q)
       \/ CmdSaveProduct(t, q)
  \/ CmdInsertMovement
  \/ CmdInsertFails
  \/ CmdNextProduct

SweepStep ==
  \/ SweepQuery
  \/ SweepGet
  \/ SweepCreate
  \/ SweepFinish

EditStep ==
  \/ \E p \in Products, s \in CsvStocks, m \in CsvMinimums :
       CsvImport(p, s, m, MaxStock)
  \/ \E i \in 1..Len(ledger), t \in MOVEMENT_TYPES, q \in 1..MaxQty :
       AdminChangeMovement(i, t, q)
  \/ \E i \in 1..Len(ledger) : AdminDeleteMovement(i)

\* The requests of the view stock_movement_create alone.
ViewStep ==
  \E r \in Requests :
    \/ \E p \in Products, t \in MOVEMENT_TYPES, q \in Quantities :
         \/ Submit(r, "view", p, t, q)
         \/ SubmitInvalid(r, "view", p, t, q)
    \/ Clean(r)
    \/ Apply(r)
    \/ ApplyFails(r)
    \/ Evaluate(r)
    \/ EvaluateFails(r)
    \/ Commit(r)

SpecView == Init /\ [][ViewStep]_vars

\* The web requests alone: the view and the admin add page.
SpecRequests == Init /\ [][RequestStep]_vars

\* Movements only: every entry point that saves a StockMovement.
NextMovements == RequestStep \/ CommandStep

SpecMovements == Init /\ [][NextMovements]_vars

\* The view's movements and the sample-data command, which creates the
\* second item.
NextTwoItems == ViewStep \/ CommandStep

SpecTwoItems == Init /\ [][NextTwoItems]_vars

\* The web requests, the sweep and the resolution of alerts.
NextAlerts ==
  \/ RequestStep
  \/ SweepStep
  \/ \E i \in 1..Len(alerts) : ResolveAlert(i)

SpecAlerts == Init /\ [][NextAlerts]_vars

\* Movements, CSV imports and the admin pages of the ledger.
NextLedger == RequestStep \/ EditStep

SpecLedger == Init /\ [][NextLedger]_vars

Prices == 0..MaxPrice

\* Web requests whose form may carry a unit price.
PricedStep ==
  \E r \in Requests :
    \/ \E e \in Entries, p \in Products, t \in MOVEMENT_TYPES, q \in Quantities :
         \/ Submit(r, e, p, t, q)
         \/ \E price \in Prices : SubmitWithPrice(r, e, p, t, q, price)
         \/ SubmitInvalid(r, e, p, t, q)
    \/ Clean(r)
    \/ Apply(r)
    \/ ApplyFails(r)
    \/ Evaluate(r)
    \/ EvaluateFails(r)
    \/ Commit(r)

SpecPrices == Init /\ [][PricedStep]_vars

FormQuantities == -1..MaxQty

\* Web requests with every quantity a form can carry, and the product form.
FormStep ==
  \/ \E r \in Requests :
       \/ \E e \in Entries, p \in Products, t \in MOVEMENT_TYPES, q \in FormQuantities :
            \/ Submit(r, e, p, t, q)
            \/ SubmitRejected(r, e, p, t, q)
       \/ Clean(r)
       \/ Apply(r)
       \/ ApplyFails(r)
       \/ Evaluate(r)
       \/ EvaluateFails(r)
       \/ Commit(r)
  \/ \E p \in Products, active \in BOOLEAN :
       product_edit(p, product[p].minimum_stock, product[p].maximum_stock, active)

SpecForms == Init /\ [][FormStep]_vars

\* What a movement form can carry as movement_type: a choice, or anything
\* else a client posts.
FormTypes == MOVEMENT_TYPES \cup {"XX"}

\* Web requests with every movement_type a form can carry.
KindStep ==
  \E r \in Requests :
    \/ \E e \in Entries, p \in Products, t \in FormTypes, q \in Quantities :
         \/ Submit(r, e, p, t, q)
         \/ SubmitRejected(r, e, p, t, q)
    \/ Clean(r)
    \/ Apply(r)
    \/ ApplyFails(r)
    \/ Evaluate(r)
    \/ EvaluateFails(r)
    \/ Commit(r)

SpecKinds == Init /\ [][KindStep]_vars

ResolveStep ==
  \/ Tick
  \/ \E i \in 1..Len(alerts) : ResolveAlert(i)
  \/ \E selected \in SUBSET (1..Len(alerts)) : mark_as_resolved(selected)

\* The view, the sweep, the clock and the two ways to resolve alerts.
NextResolve == ViewStep \/ SweepStep \/ ResolveStep

SpecResolve == Init /\ [][NextResolve]_vars

EditEntries == {"product_edit", "admin_product"}
CatalogMinimums == 0..MaxStock
CatalogMaximums == 0..MaxStock

\* The product form and the admin's product pages.
ProductPageStep ==
  \/ \E r \in Requests :
       \/ \E e \in EditEntries, p \in Products : EditLoad(r, e, p)
       \/ \E minimum \in CatalogMinimums, maximum \in CatalogMaximums, active \in BOOLEAN :
            EditSave(r, minimum, maximum, active)
  \/ \E p \in Products, minimum \in CatalogMinimums, maximum \in CatalogMaximums :
       product_create(p, minimum, maximum)

\* The product pages and the view's movements.
NextProductPages == ViewStep \/ ProductPageStep

SpecProductPages == Init /\ [][NextProductPages]_vars

\* The catalog: the product pages and the import.
CatalogStep ==
  \/ ProductPageStep
  \/ \E p \in Products, s \in 0..MaxStock,
        minimum \in CatalogMinimums, maximum \in CatalogMaximums :
       CsvImport(p, s, minimum, maximum)

\* The catalog and the view's movements.
NextCatalog == ViewStep \/ CatalogStep

SpecCatalog == Init /\ [][NextCatalog]_vars

\* The alerts with every page that writes them: the view, the sweep, the two
\* ways to resolve and the admin's change page.
NextAlertPages ==
  \/ NextResolve
  \/ \E i \in 1..Len(alerts), is_resolved \in BOOLEAN : AdminChangeAlert(i, is_resolved)

SpecAlertPages == Init /\ [][NextAlertPages]_vars

\* What the GET parameters of movement_list can carry.
Filters ==
  [product : {{}} \cup {{p} : p \in Products},
   movement_type : {"", "OUT", "XX"},
   date_from : {{}} \cup {{DateOf(t)} : t \in 1..MaxTime},
   date_to : {{}} \cup {{DateOf(t)} : t \in 1..MaxTime}]

\* The view's movements over time and the list of the ledger.
NextList ==
  \/ ViewStep
  \/ Tick
  \/ \E f \in Filters : movement_list(f)

SpecList == Init /\ [][NextList]_vars

\* The admin's pages of a movement: add, change and delete, with prices.
MovementPageStep ==
  \/ \E r \in Requests :
       \/ \E p \in Products, t \in MOVEMENT_TYPES, q \in Quantities :
            \/ Submit(r, "admin", p, t, q)
            \/ \E price \in Prices : SubmitWithPrice(r, "admin", p, t, q, price)
            \/ SubmitInvalid(r, "admin", p, t, q)
       \/ Apply(r)
       \/ ApplyFails(r)
       \/ Commit(r)
  \/ \E i \in 1..Len(ledger), t \in MOVEMENT_TYPES, q \in 1..MaxQty :
       AdminChangeMovement(i, t, q)
  \/ \E i \in 1..Len(ledger) : AdminDeleteMovement(i)

SpecMovementPages == Init /\ [][MovementPageStep]_vars

\* The whole application.
Next ==
  \/ RequestStep
  \/ CommandStep
  \/ SweepStep
  \/ ResolveStep
  \/ \E p \in Products : AdminAddAlert(p)
  \/ \E i \in 1..Len(alerts), is_resolved \in BOOLEAN : AdminChangeAlert(i, is_resolved)
  \/ EditStep
  \/ CatalogStep
  \/ \E f \in Filters : movement_list(f)

Spec == Init /\ [][Next]_vars

\* ----------------------------------------------------------------- claims

\* The ledger rows of product p, in creation order.
RowsOf(p) == SelectSeq(ledger, LAMBDA m : m.product = p)

\* The new balance a movement's kind, quantity and previous balance call for.
Expected(m) ==
  IF m.movement_type = "IN" THEN m.previous_stock + m.quantity
  ELSE IF m.movement_type = "OUT" THEN m.previous_stock - m.quantity
  ELSE m.quantity

\* The step is the last one of request r, which answers with `outcome`.
Answers(r, outcome) ==
  req[r].pc # "done" /\ req'[r].pc = "done" /\ req'[r].outcome = outcome

\* C1: the balance of every item is never negative, whatever movements the
\* view, the admin add page and the sample-data command save, in whatever
\* interleaving, and whether they succeed or fail.
C1_BalanceNeverNegative ==
  \A p \in Products : product[p].current_stock >= 0

\* C1 witness: a failed OUT request beside a committed OUT movement that
\* emptied its product.
C1_Witness ==
  /\ \E r \in Requests : req[r].outcome = "InsufficientBalance"
  /\ \E i \in 1..Len(ledger) :
        /\ ledger[i].movement_type = "OUT"
        /\ product[ledger[i].product].current_stock = 0

\* C2: every step that commits a movement record adds a record whose
\* new_stock is previous_stock + quantity (IN), previous_stock - quantity
\* (OUT) or quantity (ADJ), and leaves the item's balance equal to that
\* new_stock.
C2_RecordMatchesBalance ==
  [][Len(ledger') = Len(ledger) + 1 =>
       LET m == ledger'[Len(ledger')]
       IN  /\ m.new_stock = Expected(m)
           /\ product'[m.product].current_stock = m.new_stock]_vars

\* C3: an OUT movement whose quantity is greater than the item's balance
\* when it is applied does not succeed: the request is answered with
\* InsufficientBalance, and balance and ledger stay as they are.
C3_OutboundOverBalanceFails ==
  [][\A r \in Requests :
       LET m == req[r].movement
       IN  (/\ req[r].pc \in {"loaded", "cleaned", "applied", "evaluated"}
            /\ req'[r].pc = "done"
            /\ m.movement_type = "OUT"
            /\ m.quantity > product[m.product].current_stock)
           => /\ req'[r].outcome # "ok"
              /\ product' = product
              /\ ledger' = ledger]_vars

\* C4: of the OUT requests that race for the whole balance b of one item
\* (each read the balance b and asked for b), exactly one commits: the
\* item's ledger never holds two such movements one after the other.
C4_ExactlyOneSucceeds ==
  \A p \in Products :
    LET rows == RowsOf(p)
    IN  \A i \in 1..(Len(rows) - 1) :
          ~(/\ rows[i].movement_type = "OUT"
            /\ rows[i + 1].movement_type = "OUT"
            /\ rows[i].quantity = rows[i].previous_stock
            /\ rows[i + 1].quantity = rows[i + 1].previous_stock
            /\ rows[i].previous_stock = rows[i + 1].previous_stock)

\* The orders in which the n records of an item can be replayed.
Orders(n) == {f \in [1..n -> 1..n] : \A i, j \in 1..n : f[i] = f[j] => i = j}

\* C5: the committed movements of an item are serialized: there is an order
\* of its records in which each previous_stock is the new_stock of the
\* record before it, and the last new_stock is the item's balance.
C5_Serialized ==
  \A p \in Products :
    LET rows == RowsOf(p)
        n == Len(rows)
    IN  n >= 1 =>
          \E f \in Orders(n) :
            /\ \A i \in 2..n : rows[f[i]].previous_stock = rows[f[i - 1]].new_stock
            /\ rows[f[n]].new_stock = product[p].current_stock

\* C6: every balance change has its ledger row: for each item with at
\* least one record, the records in creation order form a chain (each
\* previous_stock is the new_stock of the record before it) that ends at the
\* item's balance; a CSV import of an existing item is no exception.
C6_LedgerReplaysToBalance ==
  \A p \in Products :
    LET rows == RowsOf(p)
        n == Len(rows)
    IN  n >= 1 =>
          /\ \A i \in 2..n : rows[i].previous_stock = rows[i - 1].new_stock
          /\ rows[n].new_stock = product[p].current_stock

\* C7: the ledger is append-only: no step removes a record or changes one.
C7_LedgerAppendOnly ==
  [][/\ Len(ledger') >= Len(ledger)
     /\ \A i \in 1..Len(ledger) : ledger'[i] = ledger[i]]_vars

\* C8: balance change and ledger row are one atomic commit: when the write
\* of the ledger row fails, the item's balance is what it was before the
\* movement, whichever entry point saved it.
C8_FailedInsertRollsBalanceBack ==
  [][/\ \A r \in Requests :
          Answers(r, "PersistenceFailure") => product' = product
     /\ (cmd.pc = "saving" /\ cmd'.outcome = "PersistenceFailure")
          => product'[cmd.product].current_stock = cmd.movement.previous_stock]_vars

\* C9: no item ever has two unresolved alerts.
C9_AtMostOneUnresolved ==
  \A p \in Products : Cardinality(Unresolved(p)) <= 1

\* The step is the get_or_create of the item p by the sweep or by request r.
SweepEvaluates(p) ==
  /\ sweep.pc = "get"
  /\ sweep.todo # <<>>
  /\ Head(sweep.todo).product = p
  /\ sweep' # sweep

ViewEvaluates(r, p) ==
  /\ req[r].pc = "applied"
  /\ req[r].movement.product = p
  /\ is_low_stock(req[r].mem)
  /\ req'[r] # req[r]

\* C10: evaluate is idempotent: an evaluation of a low item that follows
\* one that left an unresolved alert creates nothing and changes no alert,
\* and an evaluation that finds no unresolved alert creates exactly one.
C10_EvaluateIdempotent ==
  [][\A p \in Products :
       /\ (SweepEvaluates(p) /\ Unresolved(p) # {})
            => (sweep'.pc # "create" /\ alerts' = alerts)
       /\ (SweepEvaluates(p) /\ Unresolved(p) = {})
            => (sweep'.pc = "create" /\ sweep'.todo = sweep.todo)
       /\ (sweep.pc = "create" /\ sweep' # sweep /\ Head(sweep.todo).product = p)
            => /\ alerts' = Append(alerts, NewAlert(p, Head(sweep.todo).row))
               /\ sweep'.pc = "get"
               /\ sweep'.todo = Tail(sweep.todo)
       /\ \A r \in Requests :
            ViewEvaluates(r, p)
              => /\ alerts' = alerts
                 /\ req'[r].pc = "evaluated" => req'[r].has_alert = (Unresolved(p) = {})]_vars

\* C10 witness: two evaluations in a row of the low item 1 by the view, with
\* no sweep and no alert page in between: the first request committed its
\* alert, the second found it and creates nothing.
C10_Witness ==
  /\ jobs = 0
  /\ req[1].outcome = "ok"
  /\ req[2].pc = "evaluated"
  /\ req[2].entry = "view"
  /\ req[2].movement.product = 1
  /\ is_low_stock(req[2].mem)
  /\ ~req[2].has_alert
  /\ Len(alerts) = 1
  /\ Unresolved(1) = {1}

\* C11: resolve is idempotent: a resolve of an alert that is already resolved
\* changes nothing, so resolved_at keeps the time of the first resolve.
C11_ResolveKeepsFirstTimestamp ==
  [][\A i \in 1..Len(alerts) :
       alerts[i].is_resolved => alerts'[i] = alerts[i]]_vars

\* C12: an unresolved alert stays as it is through movements, evaluations
\* and sweeps, also when the balance rises above the minimum: no alert is
\* removed, and a step that changes an unresolved alert is an explicit
\* resolve of that alert.
C12_OnlyResolveResolves ==
  [][/\ Len(alerts') >= Len(alerts)
     /\ \A i \in 1..Len(alerts) :
          (~alerts[i].is_resolved /\ alerts'[i] # alerts[i])
            => \/ ResolveAlert(i)
               \/ \E selected \in SUBSET (1..Len(alerts)) :
                    i \in selected /\ mark_as_resolved(selected)]_vars

\* C12 witness (scenario A): the two requests committed, the first left item 1
\* low and created its alert, the second was an IN that raised the balance
\* above the minimum; the alert is still unresolved.
C12_Witness ==
  /\ jobs = 0
  /\ \A r \in Requests : req[r].outcome = "ok"
  /\ Len(ledger) = 2
  /\ ledger[1].product = 1 /\ ledger[1].movement_type = "OUT"
  /\ ledger[1].new_stock <= product[1].minimum_stock
  /\ ledger[2].product = 1 /\ ledger[2].movement_type = "IN"
  /\ product[1].current_stock = ledger[2].new_stock
  /\ ~is_low_stock(product[1])
  /\ Len(alerts) = 1
  /\ Unresolved(1) = {1}

\* C13: an alert is created only for an item whose balance is at or below
\* its minimum and that has no unresolved alert; the new alert stores the
\* item's balance and minimum at creation, and the alerts that existed are
\* left as they were.
C13_CreatesOnlyWhenLowAndNone ==
  [][Len(alerts') > Len(alerts) =>
       LET a == alerts'[Len(alerts')]
           p == a.product
       IN  /\ Len(alerts') = Len(alerts) + 1
           /\ \A i \in 1..Len(alerts) : alerts'[i] = alerts[i]
           /\ Unresolved(p) = {}
           /\ is_low_stock(product'[p])
           /\ a.current_stock = product'[p].current_stock
           /\ a.minimum_stock = product'[p].minimum_stock
           /\ ~a.is_resolved]_vars

\* C14: alert evaluation follows every committed movement, whichever entry
\* point committed it: once no request is in flight, so that nothing is left
\* to run, every item that has movements and is at or below its minimum has
\* an unresolved alert.
C14_LowAfterCommitHasAlert ==
  (\A r \in Requests : req[r].pc \in {"idle", "done"})
    => \A p \in Products :
         (RowsOf(p) # <<>> /\ is_low_stock(product[p])) => Unresolved(p) # {}

\* C15: a failure of the alert evaluation or of the alert's creation does not
\* roll the movement back: the step that answers the request with that
\* failure leaves the movement's ledger row and the new balance committed.
C15_AlertFailureKeepsMovement ==
  [][\A r \in Requests :
       Answers(r, "AlertFailure")
         => LET m == req[r].movement
            IN  /\ Len(ledger') = Len(ledger) + 1
                /\ ledger'[Len(ledger')] = m
                /\ product'[m.product].current_stock = m.new_stock]_vars

\* C16: every created movement record has total_value = unit_price x
\* quantity when a unit price was supplied, a price of 0 included, and no
\* total_value when none was supplied.
C16_TotalValue ==
  [][Len(ledger') = Len(ledger) + 1 =>
       LET m == ledger'[Len(ledger')]
       IN  IF m.unit_price = {}
             THEN m.total_value = {}
             ELSE m.total_value = {Value(m.unit_price) * m.quantity}]_vars

\* The step is the submission of request r.
Submits(r) == req[r].pc = "idle" /\ req'[r].pc # "idle"

\* C17: an ADJ movement with a quantity >= 0, 0 included, on an existing
\* item is accepted, and when it commits, the record's new_stock and the
\* item's balance are exactly that quantity.
C17_AdjustAccepted ==
  [][/\ \A r \in Requests :
          LET m == req'[r].movement
          IN  (/\ Submits(r)
               /\ m.movement_type = "ADJ"
               /\ m.quantity >= 0
               /\ product[m.product].exists)
              => req'[r].outcome # "InvalidQuantity"
     /\ Len(ledger') = Len(ledger) + 1 =>
          LET m == ledger'[Len(ledger')]
          IN  m.movement_type = "ADJ"
                => /\ m.new_stock = m.quantity
                   /\ product'[m.product].current_stock = m.quantity]_vars

\* C18: a request for an IN or OUT movement with quantity <= 0, or for an ADJ
\* with quantity < 0, on an existing item is answered with InvalidQuantity
\* at once and changes nothing: no balance, no ledger row, no alert.
C18_InvalidQuantityRejected ==
  [][\A r \in Requests :
       LET m == req'[r].movement
       IN  (/\ Submits(r)
            /\ product[m.product].exists
            /\ \/ m.movement_type \in {"IN", "OUT"} /\ m.quantity <= 0
               \/ m.movement_type = "ADJ" /\ m.quantity < 0)
           => /\ req'[r].pc = "done"
              /\ req'[r].outcome = "InvalidQuantity"
              /\ product' = product
              /\ ledger' = ledger
              /\ alerts' = alerts]_vars

\* C18 witness: the view has refused an OUT of quantity 0 and the admin add
\* page an IN of a negative quantity, both on the existing item 1.
C18_Witness ==
  /\ req[1].outcome = "InvalidQuantity"
  /\ req[1].entry = "view"
  /\ req[1].movement.product = 1
  /\ req[1].movement.movement_type = "OUT"
  /\ req[1].movement.quantity = 0
  /\ req[2].outcome = "InvalidQuantity"
  /\ req[2].entry = "admin"
  /\ req[2].movement.product = 1
  /\ req[2].movement.movement_type = "IN"
  /\ req[2].movement.quantity < 0
  /\ ledger = <<>>

\* C19: a movement request, with a valid quantity, against an item that
\* does not exist or is not active is answered with ItemNotFound at once
\* and changes nothing.
C19_MissingOrInactiveRejected ==
  [][\A r \in Requests :
       LET p == req'[r].movement.product
       IN  (/\ Submits(r)
            /\ req'[r].movement.quantity >= MinQuantity
            /\ ~(product[p].exists /\ product[p].is_active))
           => /\ req'[r].pc = "done"
              /\ req'[r].outcome = "ItemNotFound"
              /\ product' = product
              /\ ledger' = ledger]_vars

\* A sweep has run again with nothing but sweeps before it: no request was
\* submitted and no alert resolved.
SweptAgain ==
  /\ \A r \in Requests : req[r].pc = "idle"
  /\ \A i \in 1..Len(alerts) : ~alerts[i].is_resolved
  /\ jobs >= 2
  /\ sweep.pc = "idle"

\* C20: the sweep counts from 0 exactly the alerts it creates, and it can be
\* run again: a sweep that follows a sweep with nothing in between reports
\* 0 and leaves one alert for each low item.
C20_SweepCountsAndReruns ==
  [][/\ (sweep.pc = "idle" /\ sweep'.pc # "idle") => sweep'.alerts_created = 0
     /\ (sweep.pc # "idle" /\ sweep' # sweep)
          => sweep'.alerts_created - sweep.alerts_created = Len(alerts') - Len(alerts)
     /\ SweptAgain'
          => /\ sweep'.alerts_created = 0
             /\ \A p \in Products : Cardinality({i \in 1..Len(alerts') : alerts'[i].product = p}) <= 1]_vars

\* C20 witness: two sweeps in a row over the low item 1: the first created
\* its alert, the second has finished and reports 0.
C20_Witness ==
  /\ SweptAgain
  /\ jobs = 2
  /\ sweep.alerts_created = 0
  /\ is_low_stock(product[1])
  /\ Len(alerts) = 1
  /\ Unresolved(1) = {1}

\* C21: a sweep calls send_mail only for the alerts it creates itself, once
\* for each of them in the step that creates it, and never for an item whose
\* unresolved alert it found.
C21_MailOnlyForCreated ==
  [][/\ (sweep.pc # "idle" /\ sweep'.mailed # sweep.mailed)
          => /\ Len(alerts') = Len(alerts) + 1
             /\ sweep'.mailed = Append(sweep.mailed, Len(alerts'))
             /\ alerts'[Len(alerts')] = NewAlert(Head(sweep.todo).product, Head(sweep.todo).row)
     /\ (sweep.pc # "idle" /\ sweep' # sweep /\ Len(alerts') > Len(alerts))
          => sweep'.mailed = Append(sweep.mailed, Len(alerts'))
     /\ \A p \in Products :
          (SweepEvaluates(p) /\ Unresolved(p) # {}) => sweep'.mailed = sweep.mailed
     /\ \A i, j \in 1..Len(sweep'.mailed) :
          i # j => sweep'.mailed[i] # sweep'.mailed[j]
     /\ (sweep.pc = "idle" /\ sweep'.pc # "idle") => sweep'.mailed = <<>>]_vars

\* C21 witness: a second sweep has gone past the low item 1, whose unresolved
\* alert the first sweep created and mailed: it has sent nothing.
C21_Witness ==
  /\ jobs = 2
  /\ \A r \in Requests : req[r].pc = "idle"
  /\ sweep.pc = "get"
  /\ sweep.todo = <<>>
  /\ sweep.mailed = <<>>
  /\ sweep.alerts_created = 0
  /\ is_low_stock(product[1])
  /\ Len(alerts) = 1
  /\ Unresolved(1) = {1}

AlertsOf(p) == SelectSeq(alerts, LAMBDA a : a.product = p)

\* The item a step of request r is about: the one of its form.
ItemOf(r) ==
  IF req[r].pc = "idle" THEN req'[r].movement.product ELSE req[r].movement.product

\* C22: movements on distinct items are independent: a step of a movement
\* on one item, whether the movement succeeds or fails, leaves the row, the
\* ledger rows, the alerts and the lock of every other item as they are, and
\* a movement that commits while its item still has the balance it read
\* takes effect exactly as if it ran alone, whatever runs on other items.
C22_DistinctItemsIndependent ==
  [][/\ \A r \in Requests :
          req'[r] # req[r] =>
            /\ \A q \in Products \ {ItemOf(r)} :
                 /\ product'[q] = product[q]
                 /\ RowsOf(q)' = RowsOf(q)
                 /\ AlertsOf(q)' = AlertsOf(q)
                 /\ lock'[q] = lock[q]
            /\ (req[r].pc = "idle" /\ req'[r].pc = "done")
                 => (product' = product /\ ledger' = ledger /\ alerts' = alerts)
            /\ (req[r].pc = "evaluated"
                  /\ product[ItemOf(r)].current_stock = req[r].movement.previous_stock)
                 => LET m == req[r].movement
                        alone == SaveNew(FormMovement(m.product, m.movement_type, m.quantity),
                                         product[m.product])
                    IN  /\ alone.ok
                        /\ product'[m.product] = alone.row
                        /\ ledger' = Append(ledger, [alone.movement EXCEPT !.created_at = m.created_at])
                        /\ req'[r].outcome = "ok"
     /\ cmd' # cmd =>
          \A q \in Products \ {cmd'.product} :
            /\ product'[q] = product[q]
            /\ RowsOf(q)' = RowsOf(q)
            /\ AlertsOf(q)' = AlertsOf(q)
            /\ lock'[q] = lock[q]]_vars

\* C22 witness: two requests on the items 1 and 2 were in flight together:
\* the one on item 1 has committed its movement and its alert, the one on
\* item 2 has applied its movement and holds the lock of its row, which
\* still has the balance it read.
C22_Witness ==
  /\ req[1].outcome = "ok"
  /\ ledger # <<>>
  /\ ledger[Len(ledger)].product = 1
  /\ ledger[Len(ledger)].unit_price = {}
  /\ AlertsOf(1) # <<>>
  /\ req[2].pc = "evaluated"
  /\ req[2].movement.product = 2
  /\ lock[2] = {2}
  /\ product[2].current_stock = req[2].movement.previous_stock
  /\ req[2].movement.new_stock # product[2].current_stock

\* C23: after any sequence of catalog creates and edits (product form,
\* admin pages, CSV import) every item has its minimum below its maximum.
C23_MinimumBelowMaximum ==
  \A p \in Products :
    product[p].exists => product[p].minimum_stock < product[p].maximum_stock

\* C24: a catalog create or edit (product form, admin page) never changes
\* the balance of an existing item, also when a movement commits between
\* the edit's read of the row and its save.
C24_EditKeepsBalance ==
  [][/\ \A r \in Requests :
          (req[r].pc = "editing" /\ req'[r] # req[r])
            => \A p \in Products : product'[p].current_stock = product[p].current_stock
     /\ \A p \in Products :
          (product[p].exists /\ jobs' # jobs /\ ledger' = ledger /\ alerts' = alerts
             /\ \E q \in Products : ~product[q].exists /\ product'[q].exists)
            => product'[p].current_stock = product[p].current_stock]_vars

\* C25: no reader sees a movement half applied: every step that changes the
\* visible balance of an item makes the movement's ledger row visible with
\* it, and every step that makes a ledger row visible leaves the item's
\* visible balance at the row's new_stock.
C25_MovementVisibleWhole ==
  [][/\ \A p \in Products :
          (product[p].exists /\ product'[p].current_stock # product[p].current_stock)
            => /\ Len(ledger') = Len(ledger) + 1
               /\ ledger'[Len(ledger')].product = p
               /\ ledger'[Len(ledger')].new_stock = product'[p].current_stock
     /\ Len(ledger') = Len(ledger) + 1
          => product'[ledger'[Len(ledger')].product].current_stock
               = ledger'[Len(ledger')].new_stock]_vars

\* C26: a movement request whose movement_type is not IN, OUT or ADJ is
\* rejected before anything is touched: the form answers it at once, no
\* row, ledger row, alert or lock changes, and StockMovement.save refuses
\* such a movement for every row it could be applied to.
C26_UnknownKindRejected ==
  [][/\ \A r \in Requests :
          (Submits(r) /\ req'[r].movement.movement_type \notin MOVEMENT_TYPES)
            => /\ req'[r].pc = "done"
               /\ req'[r].outcome \in {"InvalidQuantity", "ItemNotFound"}
               /\ product' = product
               /\ ledger' = ledger
               /\ alerts' = alerts
               /\ lock' = lock
     /\ \A p \in Products, t \in FormTypes \ MOVEMENT_TYPES, q \in Quantities :
          LET s == SaveNew(FormMovement(p, t, q), product[p])
          IN  ~s.ok /\ s.row = product[p]
     /\ \A i \in 1..Len(ledger') : ledger'[i].movement_type \in MOVEMENT_TYPES]_vars

\* C26 witness: a request for the existing item 1 with the movement_type XX
\* and a valid quantity was answered InvalidQuantity; nothing was saved.
C26_Witness ==
  \E r \in Requests :
    /\ req[r].pc = "done"
    /\ req[r].outcome = "InvalidQuantity"
    /\ req[r].movement.product = 1
    /\ req[r].movement.movement_type = "XX"
    /\ req[r].movement.quantity >= MinQuantity
    /\ ledger = <<>>

\* C27: a movement that succeeds has exactly these effects: the balance of
\* its item becomes the record's new_stock, one ledger row is added, for
\* that item, and at most one alert is added; every other field of the item,
\* every other item, every earlier ledger row and every earlier alert stay
\* as they are.
C27_SuccessfulMovementFrame ==
  [][\A r \in Requests :
       Answers(r, "ok") /\ req[r].pc = "evaluated" =>
         LET p == req[r].movement.product
         IN  /\ Len(ledger') = Len(ledger) + 1
             /\ SubSeq(ledger', 1, Len(ledger)) = ledger
             /\ ledger'[Len(ledger')].product = p
             /\ product'[p].current_stock = ledger'[Len(ledger')].new_stock
             /\ product' = [product EXCEPT ![p].current_stock = product'[p].current_stock]
             /\ Len(alerts') \in {Len(alerts), Len(alerts) + 1}
             /\ SubSeq(alerts', 1, Len(alerts)) = alerts]_vars

\* The resolved alerts of item p.
ResolvedOf(p) ==
  {i \in 1..Len(alerts) : alerts[i].product = p /\ alerts[i].is_resolved}

\* C28: once the alerts of an item are resolved while the item is still
\* low, the next evaluation of the item, by the sweep or by a movement of
\* the view, creates a new unresolved alert with the values it evaluated,
\* and no evaluation or creation changes a resolved alert.
C28_NewAlertAfterResolve ==
  [][\A p \in Products :
       (ResolvedOf(p) # {} /\ Unresolved(p) = {}) =>
         /\ SweepEvaluates(p) => (sweep'.pc = "create" /\ sweep'.todo = sweep.todo)
         /\ (sweep.pc = "create" /\ sweep' # sweep /\ Head(sweep.todo).product = p)
              => /\ alerts' = Append(alerts, NewAlert(p, Head(sweep.todo).row))
                 /\ Unresolved(p)' = {Len(alerts')}
         /\ \A r \in Requests :
              /\ (ViewEvaluates(r, p) /\ req'[r].pc = "evaluated")
                   => (req'[r].has_alert /\ req'[r].alert = NewAlert(p, req[r].mem))
              /\ (Answers(r, "ok") /\ req[r].movement.product = p /\ req[r].has_alert)
                   => alerts' = Append(alerts, req[r].alert)
         /\ (sweep' # sweep \/ \E r \in Requests : req'[r] # req[r])
              => \A i \in ResolvedOf(p) : alerts'[i] = alerts[i]]_vars

\* C28 witness: the first alert of the low item 1 was resolved and the item
\* stayed low; the evaluation that followed created a second alert, which is
\* unresolved, beside the resolved one.
C28_Witness ==
  /\ is_low_stock(product[1])
  /\ Len(alerts) = 2
  /\ ResolvedOf(1) = {1}
  /\ Unresolved(1) = {2}
  /\ alerts[1].resolved_at # {}

\* C29: in every state every alert has resolved_at null exactly when
\* is_resolved is false, and an alert that is resolved stays resolved.
C29_ResolvedFlagAndTimestamp ==
  [][/\ \A i \in 1..Len(alerts') :
          (alerts'[i].resolved_at = {}) <=> ~alerts'[i].is_resolved
     /\ \A i \in 1..Len(alerts) :
          alerts[i].is_resolved => (i <= Len(alerts') /\ alerts'[i].is_resolved)]_vars

\* The ledger rows that match every filter that was supplied.
Matching(f) == {i \in 1..Len(ledger) : FilterMatches(f, ledger[i])}

\* C30: the ledger query returns exactly the rows that match every filter
\* supplied (item, kind, creation day from, creation day to), each once, in
\* the order of their creation time, and changes nothing.
C30_QueryReturnsMatches ==
  [][listed' # listed =>
       LET f == listed'.filters
           rows == listed'.rows
       IN  /\ {rows[k] : k \in 1..Len(rows)} = Matching(f)
           /\ Len(rows) = Cardinality(Matching(f))
           /\ \A k \in 1..(Len(rows) - 1) :
                ledger[rows[k]].created_at >= ledger[rows[k + 1]].created_at
           /\ product' = product
           /\ ledger' = ledger
           /\ alerts' = alerts]_vars

\* The step saves a change of an existing ledger row.
ChangesRow(i) ==
  /\ Len(ledger') = Len(ledger)
  /\ i \in 1..Len(ledger)
  /\ ledger'[i] # ledger[i]

\* C31: saving a movement that already exists does not apply it again: the
\* balance of every item, and the previous_stock and new_stock of the row,
\* are after the save what they were before it, whatever movement_type and
\* quantity the row now carries.
C31_ExistingNotReapplied ==
  [][\A i \in 1..Len(ledger) :
       ChangesRow(i) =>
         /\ product' = product
         /\ ledger'[i].previous_stock = ledger[i].previous_stock
         /\ ledger'[i].new_stock = ledger[i].new_stock
         /\ ledger'[i].product = ledger[i].product
         /\ \A j \in 1..Len(ledger) : j # i => ledger'[j] = ledger[j]]_vars

\* C31 witness: the only row of the ledger was saved again on the change
\* page with another movement_type or quantity: its previous_stock and
\* new_stock no longer follow from them, and the item still has the balance
\* the movement left.
C31_Witness ==
  /\ jobs = 1
  /\ Len(ledger) = 1
  /\ ledger[1].new_stock # Expected(ledger[1])
  /\ product[ledger[1].product].current_stock = ledger[1].new_stock
  /\ \A r \in Requests : req[r].pc \in {"idle", "done"}

\* C32: a movement that is applied changes only the balance of its item:
\* when it commits, the item's minimum_stock, maximum_stock and is_active
\* are the last committed values, also when an edit of the item committed
\* between the movement's read of the row and its write.
C32_MovementKeepsCatalogFields ==
  [][\A r \in Requests :
       (req[r].pc = "evaluated" /\ req'[r].pc = "done") =>
         LET p == req[r].movement.product
         IN  /\ product'[p].minimum_stock = product[p].minimum_stock
             /\ product'[p].maximum_stock = product[p].maximum_stock
             /\ product'[p].is_active = product[p].is_active
             /\ product'[p].exists = product[p].exists]_vars

====
